---- MODULE Spec2Model ----
(***************************************************************************)
(* FMDL (learn_mdl.py): MDL-driven learning of a subword codebook.         *)
(*                                                                         *)
(* The model follows class FMDL: the cost model (compute_code_cost,        *)
(* compute_data_cost, compute_cost), the candidate selector                *)
(* (collect_candidates), the committer (check_valid, commit_and_success),  *)
(* and the training loop (update_codebook, train).                         *)
(*                                                                         *)
(* Tokens are sequences of characters, so that w1 + w2 is w1 \o w2 and     *)
(* len(w) is Len(w).  Costs are doubles, computed with the roundings of    *)
(* the code's float arithmetic, math.log included.  A math.log of a value  *)
(* <= 0 and a division by n = 0 raise (ValueError, ZeroDivisionError); the *)
(* model keeps that outcome apart as the err field of a cost.              *)
(*                                                                         *)
(* modules.DataSet and modules.CodeBook are not part of learn_mdl.py; the  *)
(* model takes them from the design document: the corpus is a sequence of  *)
(* tokens, pair statistics count adjacent tokens, search_indices returns   *)
(* the (prev, w1, w2, next) contexts, apply_codebook re-segments the       *)
(* corpus greedily, and the codebook is a counter (a missing key reads 0). *)
(***************************************************************************)
EXTENDS Integers, Sequences, FiniteSets, TLC

VARIABLES
    pc,          \* position in train: "start", "loop", "commit", "returned", "raised"
    tokens,      \* dataset: the corpus in its current segmentation
    alphabet,    \* dataset.vocab as built by build_vocab: the base symbols
    stopwords,   \* dataset.stopwords
    min_count,   \* self.min_count
    vocab_size,  \* self.vocab_size
    iterations,  \* argument of train
    log_base,    \* self.log_base, a double
    data_len,    \* self.data_len
    codebook,    \* self.codebook (a function token -> count)
    hasCodebook, \* whether the attribute self.codebook has been assigned
    epoch,       \* number of epochs started (the loop variable of train, plus one)
    candidates,  \* list returned by collect_candidates in this epoch
    idx,         \* position of update_codebook's loop in candidates
    last,        \* what the last commit_and_success call did
    capped,      \* update_codebook returned False
    applied,     \* number of calls of dataset.apply_codebook
    cargs,       \* arguments of a direct call of compute_data_cost
    cres         \* its outcome

vars == <<pc, tokens, alphabet, stopwords, min_count, vocab_size, iterations,
          log_base, data_len, codebook, hasCodebook, epoch, candidates, idx,
          last, capped, applied, cargs, cres>>

---------------------------------------------------------------------------
(* Bounds *)

MaxLen == 4
MaxIter == 2
MaxMinCount == 2
MaxVocab == 4
MaxCount == 4
MaxPairs == 6
MaxSingles == 3
MaxReps == 2
MaxWideVocab == 12

Chars == {"a", "b", "c"}

EOS == <<"$">>

---------------------------------------------------------------------------
(* Counter and dictionary operations of the codebook *)

Get(cb, w) == IF w \in DOMAIN cb THEN cb[w] ELSE 0

Put(cb, w, v) == [x \in DOMAIN cb \cup {w} |-> IF x = w THEN v ELSE cb[x]]

Del(cb, w) == [x \in DOMAIN cb \ {w} |-> cb[x]]

Size(cb) == Cardinality(DOMAIN cb)

---------------------------------------------------------------------------
(* Cost model *)

(* Double-precision arithmetic.  A double x is <<s, h, m, l>> with s its    *)
(* sign (-1, 0, 1) and h, m, l the digits in base 2^24 of |x| * 2^58, so    *)
(* that x = s * (h * 2^48 + m * 2^24 + l) / 2^58.  Every double that the    *)
(* cost model meets on counts up to 53 is a multiple of 2^-58.  A product   *)
(* or a sum is computed exactly and rounded to 53 significant bits, ties    *)
(* to even.                                                                 *)

Abs(x) == IF x < 0 THEN -x ELSE x

Limb == 16777216

Zero == <<0, 0, 0, 0>>

Sign(x) == x[1]

Neg(x) == <<-x[1], x[2], x[3], x[4]>>

\* five digits (most significant first) made to lie in 0..Limb-1 by
\* carrying and borrowing
Norm(w) ==
    LET v4 == w[4] + w[5] \div Limb
        v3 == w[3] + v4 \div Limb
        v2 == w[2] + v3 \div Limb
    IN  <<w[1] + v2 \div Limb, v2 % Limb, v3 % Limb, v4 % Limb, w[5] % Limb>>

\* the same for the three digits of a double
Carry(h, m, l) ==
    <<h + (m + l \div Limb) \div Limb, (m + l \div Limb) % Limb, l % Limb>>

\* the number of binary digits of d, for 0 <= d < 2^31, found by halving
BitLen(d) ==
    IF d < 32768
    THEN IF d < 128
        THEN IF d < 8
            THEN IF d < 2
                THEN IF d < 1 THEN 0 ELSE 1
                ELSE IF d < 4 THEN 2 ELSE 3
            ELSE IF d < 32
                THEN IF d < 16 THEN 4 ELSE 5
                ELSE IF d < 64 THEN 6 ELSE 7
        ELSE IF d < 2048
            THEN IF d < 512
                THEN IF d < 256 THEN 8 ELSE 9
                ELSE IF d < 1024 THEN 10 ELSE 11
            ELSE IF d < 8192
                THEN IF d < 4096 THEN 12 ELSE 13
                ELSE IF d < 16384 THEN 14 ELSE 15
    ELSE IF d < 8388608
        THEN IF d < 524288
            THEN IF d < 131072
                THEN IF d < 65536 THEN 16 ELSE 17
                ELSE IF d < 262144 THEN 18 ELSE 19
            ELSE IF d < 2097152
                THEN IF d < 1048576 THEN 20 ELSE 21
                ELSE IF d < 4194304 THEN 22 ELSE 23
        ELSE IF d < 134217728
            THEN IF d < 33554432
                THEN IF d < 16777216 THEN 24 ELSE 25
                ELSE IF d < 67108864 THEN 26 ELSE 27
            ELSE IF d < 536870912
                THEN IF d < 268435456 THEN 28 ELSE 29
                ELSE IF d < 1073741824 THEN 30 ELSE 31

MagLen(mag) ==
    IF mag[1] > 0 THEN 48 + BitLen(mag[1])
    ELSE IF mag[2] > 0 THEN 24 + BitLen(mag[2])
    ELSE BitLen(mag[3])

\* mag, whose remainder modulo q is r, rounded to a multiple of q
RoundTo(mag, q, r) ==
    IF 2 * r > q \/ (2 * r = q /\ (mag[3] \div q) % 2 = 1)
    THEN Carry(mag[1], mag[2], mag[3] - r + q)
    ELSE <<mag[1], mag[2], mag[3] - r>>

RoundAt(mag, sh) ==
    IF sh <= 0 THEN mag ELSE RoundTo(mag, 2^sh, mag[3] % (2^sh))

\* round to nearest, ties to even, at 53 significant bits
RoundMag(mag) == RoundAt(mag, MagLen(mag) - 53)

Double(s, mag) == IF mag = <<0, 0, 0>> THEN Zero ELSE <<s>> \o mag

MagBelow(x, y) ==
    \/ x[2] < y[2]
    \/ x[2] = y[2] /\ x[3] < y[3]
    \/ x[2] = y[2] /\ x[3] = y[3] /\ x[4] < y[4]

\* x < y
Below(x, y) ==
    IF x[1] # y[1] THEN x[1] < y[1]
    ELSE IF x[1] = 1 THEN MagBelow(x, y)
    ELSE IF x[1] = -1 THEN MagBelow(y, x)
    ELSE FALSE

\* float(c) * x for an integer c
Times(c, x) ==
    Double(IF c > 0 THEN x[1] ELSE IF c < 0 THEN -x[1] ELSE 0,
           RoundMag(Carry(Abs(c) * x[2], Abs(c) * x[3], Abs(c) * x[4])))

PlusSign(x, y) ==
    IF x[1] = 0 THEN y[1]
    ELSE IF y[1] = 0 \/ x[1] = y[1] THEN x[1]
    ELSE IF MagBelow(x, y) THEN y[1]
    ELSE x[1]

PlusMag(x, y) ==
    IF x[1] * y[1] >= 0 THEN Carry(x[2] + y[2], x[3] + y[3], x[4] + y[4])
    ELSE IF MagBelow(x, y) THEN Carry(y[2] - x[2], y[3] - x[3], y[4] - x[4])
    ELSE Carry(x[2] - y[2], x[3] - y[3], x[4] - y[4])

\* x + y
Plus(x, y) == Double(PlusSign(x, y), RoundMag(PlusMag(x, y)))

\* x - y
Minus(x, y) == Plus(x, Neg(y))

(* math.log.  The natural logarithm is kept to 96 binary places, as five    *)
(* digits in base 2^24, the first being the integer part.  math.log(num /   *)
(* n) is the logarithm of the double nearest to num / n, rounded to 53      *)
(* significant bits: ln(num) - ln(n), plus the relative error of the        *)
(* quotient.  The logarithm of the C library is not always the nearest      *)
(* double; on the quotients of two counts up to 53 it is, except for        *)
(* 41 / 35, where it is the double just below (LogSlips).                   *)

\* ln(p) * 2^96 for the primes up to 53
LnPrime(p) ==
    CASE p = 2 -> <<0, 11629079, 16241103, 7973833, 14922648>>
      [] p = 3 -> <<1, 1654439, 11194416, 11105956, 1674581>>
      [] p = 5 -> <<1, 10224671, 8313043, 3583967, 7841046>>
      [] p = 7 -> <<1, 15869738, 14886309, 7685878, 9737935>>
      [] p = 11 -> <<2, 6675574, 15722217, 7796619, 9959829>>
      [] p = 13 -> <<2, 9478277, 6697354, 2085071, 12181268>>
      [] p = 17 -> <<2, 13979000, 4149231, 3792869, 15959832>>
      [] p = 19 -> <<2, 15845056, 12621413, 9322511, 5431918>>
      [] p = 23 -> <<3, 2273215, 12203646, 74416, 12590667>>
      [] p = 29 -> <<3, 6162201, 7978947, 14134484, 1302027>>
      [] p = 31 -> <<3, 7281097, 1189227, 4072165, 13911822>>
      [] p = 37 -> <<3, 10249501, 13064439, 10941181, 2843644>>
      [] p = 41 -> <<3, 11971752, 11654537, 11892123, 16734823>>
      [] p = 43 -> <<3, 12770818, 12754306, 2280356, 9890828>>
      [] p = 47 -> <<3, 14263109, 15867414, 13316493, 13927993>>
      [] p = 53 -> <<3, 16278797, 280469, 5672916, 12414447>>

\* digit by digit x + s * y
Combine(x, s, y) == [i \in DOMAIN x |-> x[i] + s * y[i]]

\* the exponent of p in k
Mult(k, p) == Cardinality({i \in 1..5 : k % (p^i) = 0})

\* what is left of k without its factors 2, 3, 5 and 7: for k up to 53, 1 or
\* a prime
Rest(k) == k \div (2^Mult(k, 2) * 3^Mult(k, 3) * 5^Mult(k, 5) * 7^Mult(k, 7))

\* ln(k) * 2^96, digits not yet carried
LnWide(k) ==
    [i \in 1..5 |->
        Mult(k, 2) * LnPrime(2)[i] + Mult(k, 3) * LnPrime(3)[i]
            + Mult(k, 5) * LnPrime(5)[i] + Mult(k, 7) * LnPrime(7)[i]
            + (IF Rest(k) > 1 THEN LnPrime(Rest(k))[i] ELSE 0)]

\* the j with 2^j <= num / n < 2^(j + 1)
Exponent(num, n) ==
    CHOOSE j \in -6..5 :
        IF j >= 0 THEN n * 2^j <= num /\ num < n * 2^(j + 1)
        ELSE n <= num * 2^(-j) /\ num * 2^(-j - 1) < n

\* (num * 2^k) % n, for k from 30 to 58
Remainder(num, n, k) == (num * (((2^29) % n) * ((2^(k - 29)) % n))) % n

\* The double nearest to num / n is M / 2^k with M of 53 bits; Excess is
\* M * n - num * 2^k for the remainder rho of num * 2^k by n.  (A tie,
\* 2 * rho = n, would make num / n a fraction of 54 bits: there is none.)
Excess(n, rho) == IF 2 * rho > n THEN n - rho ELSE -rho

\* r / (num * 2^k) * 2^96 for r >= 0: the relative error of the quotient
Scaled(r, num, k) ==
    <<0, 0, 0, (r * 2^(72 - k)) \div num,
      (((r * 2^(72 - k)) % num) * Limb) \div num>>

\* |ln(M / 2^k)| * 2^96 for num # n, r being the excess of M
WideSum(num, n, k, r) ==
    Norm(Combine(Combine(LnWide(IF num > n THEN num ELSE n), -1,
                         LnWide(IF num > n THEN n ELSE num)),
                 (IF num > n THEN 1 ELSE -1) * (IF r < 0 THEN -1 ELSE 1),
                 Scaled(Abs(r), num, k)))

WideLog(num, n, k) == WideSum(num, n, k, Excess(n, Remainder(num, n, k)))

\* quotients for which the library returns the double just below the nearest
LogSlips == {<<41, 35>>}

WideLen(w) == IF w[1] > 0 THEN 96 + BitLen(w[1]) ELSE 72 + BitLen(w[2])

\* w, whose fourth digit has remainder r modulo q, rounded to a multiple of
\* q in that digit; down tells to drop the rest instead
Narrow(w, q, r, down) ==
    IF ~down /\ (2 * r > q \/ (2 * r = q /\ (w[5] > 0 \/ (w[4] \div q) % 2 = 1)))
    THEN Norm(<<w[1], w[2], w[3], w[4] - r + q, 0>>)
    ELSE <<w[1], w[2], w[3], w[4] - r, 0>>

\* a multiple of 2^-58 given to 72 places, in units of 2^-58
Units(w) ==
    <<w[1] * 1024 + w[2] \div 16384,
      (w[2] % 16384) * 1024 + w[3] \div 16384,
      (w[3] % 16384) * 1024 + w[4] \div 16384>>

\* w rounded to 53 significant bits, s of its bits to drop being in the
\* fourth digit
RoundWide(w, s, down) == Units(Narrow(w, 2^s, w[4] % (2^s), down))

LogMag(w, down) == RoundWide(w, WideLen(w) - 77, down)

\* math.log(num / n) is defined when n # 0 and num / n > 0
LogOk(num, n) == n # 0 /\ num * n > 0

\* math.log(num / n) for num and n from 1 to 53
Log(num, n) ==
    IF num = n THEN Zero
    ELSE Double(IF num < n THEN -1 ELSE 1,
                LogMag(WideLog(num, n, 52 - Exponent(num, n)),
                       <<num, n>> \in LogSlips))

\* the values of Log as a sequence of sequences, computed once:
\* LogTable[n][num] is Log(num, n)
LogTable ==
    SubSeq([n \in 1..53 |-> SubSeq([num \in 1..53 |-> Log(num, n)], 1, 53)], 1, 53)

\* math.log(num / n)
math_log(num, n) == LogTable[Abs(n)][Abs(num)]

compute_code_cost(w1, w2, c1, c2, total) ==
    LET a == IF total > 0 THEN Len(w1 \o w2) ELSE 0
        b == IF total = c1 THEN Len(w1) ELSE 0
        c == IF total = c2 THEN Len(w2) ELSE 0
    IN  -(a - b - c)

compute_data_cost(c1w2, c1, c2, n) ==
    LET err == \/ ~LogOk(c1, n)
               \/ (c1 > c1w2 /\ ~LogOk(c1 - c1w2, n))
               \/ ~LogOk(c2, n)
               \/ (c2 > c1w2 /\ ~LogOk(c2 - c1w2, n))
               \/ ~LogOk(c1w2, n)
               \/ ~LogOk(n - c1w2, n)
        d1 == Plus(Zero, Times(c1, math_log(c1, n)))
        d2 == Minus(d1, IF c1 > c1w2
                        THEN Times(c1 - c1w2, math_log(c1 - c1w2, n))
                        ELSE Zero)
        d3 == Plus(d2, Times(c2, math_log(c2, n)))
        d4 == Minus(d3, IF c2 > c1w2
                        THEN Times(c2 - c1w2, math_log(c2 - c1w2, n))
                        ELSE Zero)
        d5 == Minus(d4, Times(c1w2, math_log(c1w2, n)))
        d6 == Plus(d5, Times(n - c1 - c2, math_log(n - c1w2, n)))
    IN  IF err THEN [err |-> TRUE, val |-> Zero]
        ELSE [err |-> FALSE, val |-> d6]

\* the pair (code_cost, data_cost) of line 64
CostPair(factor, lb, dc) ==
    [err |-> dc.err, code |-> Times(factor, lb), data |-> dc.val]

compute_cost(cb, lb, n, w1, w2, total) ==
    CostPair(compute_code_cost(w1, w2, Get(cb, w1), Get(cb, w2), total), lb,
             compute_data_cost(total, Get(cb, w1), Get(cb, w2), n))

\* sum(cost)
CostSum(cost) == Plus(Plus(Zero, cost.code), cost.data)

---------------------------------------------------------------------------
(* The dataset (modules.DataSet) and the seeded codebook (modules.CodeBook) *)

Count(toks, w) == Cardinality({i \in DOMAIN toks : toks[i] = w})

TokenSet(toks) == {toks[i] : i \in DOMAIN toks}

\* CodeBook(dataset.vocab, dataset.stopwords): the counts of the current
\* tokens; a stopword that does not occur is entered with count 1
CodeBook(toks, stops) ==
    [w \in TokenSet(toks) \cup stops |->
        IF Count(toks, w) >= 1 THEN Count(toks, w) ELSE 1]

PairAt(toks, i) == <<toks[i], toks[i + 1]>>

PairSet(toks) == {PairAt(toks, i) : i \in 1..(Len(toks) - 1)}

PairCount(toks, p) ==
    Cardinality({i \in 1..(Len(toks) - 1) : PairAt(toks, i) = p})

FirstPos(toks, p) ==
    CHOOSE i \in 1..(Len(toks) - 1) :
        PairAt(toks, i) = p /\ \A j \in 1..(i - 1) : PairAt(toks, j) # p

\* Counter.most_common: by count, highest first; equal counts in the order
\* of first occurrence
Before(toks, p, q) ==
    \/ PairCount(toks, p) > PairCount(toks, q)
    \/ PairCount(toks, p) = PairCount(toks, q) /\ FirstPos(toks, p) < FirstPos(toks, q)

RECURSIVE Ranked(_, _)
Ranked(toks, S) ==
    IF S = {} THEN <<>>
    ELSE LET p == CHOOSE x \in S : \A y \in S \ {x} : Before(toks, x, y)
         IN  <<p>> \o Ranked(toks, S \ {p})

Take(s, k) == SubSeq(s, 1, IF k < Len(s) THEN k ELSE Len(s))

most_common(toks, k) ==
    LET r == Take(Ranked(toks, PairSet(toks)), k)
    IN  [i \in DOMAIN r |-> [pair |-> r[i], total |-> PairCount(toks, r[i])]]

\* dataset.search_indices(pair): the contexts (prev, w1, w2, next) of the
\* occurrences of the pair, in corpus order; EOS stands beyond both ends
Context(toks, i) ==
    <<IF i > 1 THEN toks[i - 1] ELSE EOS, toks[i], toks[i + 1],
      IF i + 2 <= Len(toks) THEN toks[i + 2] ELSE EOS>>

RECURSIVE search_from(_, _, _)
search_from(toks, pair, i) ==
    IF i >= Len(toks) THEN <<>>
    ELSE (IF PairAt(toks, i) = pair THEN <<Context(toks, i)>> ELSE <<>>)
         \o search_from(toks, pair, i + 1)

search_indices(toks, pair) == search_from(toks, pair, 1)

\* dataset.apply_codebook(codebook): the characters of the corpus, cut from
\* the left into the longest codebook key each time, else one character
RECURSIVE Flatten(_)
Flatten(toks) ==
    IF toks = <<>> THEN <<>> ELSE Head(toks) \o Flatten(Tail(toks))

RECURSIVE Segment(_, _)
Segment(chars, cb) ==
    IF chars = <<>> THEN <<>>
    ELSE LET fits == {l \in 1..Len(chars) :
                         l = 1 \/ SubSeq(chars, 1, l) \in DOMAIN cb}
             l == CHOOSE x \in fits : \A y \in fits : y <= x
         IN  <<SubSeq(chars, 1, l)>> \o Segment(SubSeq(chars, l + 1, Len(chars)), cb)

apply_codebook(toks, cb) == Segment(Flatten(toks), cb)

---------------------------------------------------------------------------
(* Candidate selector *)

\* the candidates of collect_candidates before sorting: the pairs of
\* most_common with total >= min_count and sum(cost) < 0
RECURSIVE Kept(_, _, _, _, _)
Kept(common, mc, cb, lb, n) ==
    IF common = <<>> THEN <<>>
    ELSE LET h == Head(common)
             cost == compute_cost(cb, lb, n, h.pair[1], h.pair[2], h.total)
             rest == Kept(Tail(common), mc, cb, lb, n)
         IN  IF h.total >= mc /\ ~cost.err /\ Sign(CostSum(cost)) < 0
             THEN <<[pair |-> h.pair, total |-> h.total, cost |-> cost]>> \o rest
             ELSE rest

\* compute_cost raises for one of the filtered pairs
CollectRaises(common, mc, cb, lb, n) ==
    \E i \in DOMAIN common :
        /\ common[i].total >= mc
        /\ compute_cost(cb, lb, n, common[i].pair[1], common[i].pair[2],
                        common[i].total).err

\* Insert that puts a candidate before those of equal cost
RECURSIVE Insert_unstable(_, _)
Insert_unstable(sorted, c) ==
    IF sorted = <<>> THEN <<c>>
    ELSE IF Below(CostSum(Head(sorted).cost), CostSum(c.cost))
         THEN <<Head(sorted)>> \o Insert_unstable(Tail(sorted), c)
         ELSE <<c>> \o sorted

\* sorted(candidates, key = sum of cost): stable
RECURSIVE Insert(_, _)
Insert(sorted, c) ==
    IF sorted = <<>> THEN <<c>>
    ELSE IF ~Below(CostSum(c.cost), CostSum(Head(sorted).cost))
         THEN <<Head(sorted)>> \o Insert(Tail(sorted), c)
         ELSE <<c>> \o sorted

RECURSIVE SortByCost(_)
SortByCost(cands) ==
    IF cands = <<>> THEN <<>>
    ELSE Insert(SortByCost(SubSeq(cands, 1, Len(cands) - 1)), cands[Len(cands)])

\* math.ceil(len * 0.8)
Ceil80(k) == (4 * k + 4) \div 5

collect_candidates(toks, mc, vs, cb, lb, n) ==
    LET common == most_common(toks, vs \div 2)
        kept == Kept(common, mc, cb, lb, n)
    IN  [err |-> CollectRaises(common, mc, cb, lb, n),
         list |-> Take(SortByCost(kept), Ceil80(Len(kept)))]

---------------------------------------------------------------------------
(* Conflict-aware committer *)

\* check_from with the second test not an elif
RECURSIVE check_from_twice(_, _, _)
check_from_twice(ctxs, total, cb) ==
    IF ctxs = <<>> THEN total
    ELSE LET c == Head(ctxs)
             d1 == IF (c[1] \o c[2]) \in DOMAIN cb THEN 1 ELSE 0
             d2 == IF (c[3] \o c[4]) \in DOMAIN cb THEN 1 ELSE 0
         IN  check_from_twice(Tail(ctxs), total - d1 - d2, cb)

RECURSIVE check_from(_, _, _)
check_from(ctxs, total, cb) ==
    IF ctxs = <<>> THEN total
    ELSE LET c == Head(ctxs)
             t == IF (c[1] \o c[2]) \in DOMAIN cb THEN total - 1
                  ELSE IF (c[3] \o c[4]) \in DOMAIN cb THEN total - 1
                  ELSE total
         IN  check_from(Tail(ctxs), t, cb)

check_valid(toks, cb, pair, total) ==
    check_from(search_indices(toks, pair), total, cb)

\* Merge without the deletions of lines 112-115
Merge_keep(cb, w1, w2, total) ==
    LET word == w1 \o w2
        cb1 == Put(cb, word, Get(cb, word) + total)
        cb2 == Put(cb1, w1, Get(cb1, w1) - total)
    IN  Put(cb2, w2, Get(cb2, w2) - total)

\* Merge with the new counts all computed from the counts before the call
Merge_once(cb, w1, w2, total) ==
    LET word == w1 \o w2
        cb1 == Put(cb, word, Get(cb, word) + total)
        cb2 == Put(cb1, w1, Get(cb, w1) - total)
        cb3 == Put(cb2, w2, Get(cb, w2) - total)
        cb4 == IF Get(cb3, w1) < 1 THEN Del(cb3, w1) ELSE cb3
        cb5 == IF Get(cb4, w2) < 1 THEN Del(cb4, w2) ELSE cb4
    IN  cb5

\* lines 108-115: the three count updates and the two deletions
Merge(cb, w1, w2, total) ==
    LET word == w1 \o w2
        cb1 == Put(cb, word, Get(cb, word) + total)
        cb2 == Put(cb1, w1, Get(cb1, w1) - total)
        cb3 == Put(cb2, w2, Get(cb2, w2) - total)
        cb4 == IF Get(cb3, w1) < 1 THEN Del(cb3, w1) ELSE cb3
        cb5 == IF Get(cb4, w2) < 1 THEN Del(cb4, w2) ELSE cb4
    IN  cb5

\* the cost test of line 106: the candidate is given up
CostRejects(cost) == Sign(CostSum(cost)) > 0

\* commit_and_success with the cost recomputed before line 105 has lowered
\* data_len
commit_before_decrement(toks, cb, lb, n, mc, pair, total0) ==
    LET w1 == pair[1]
        w2 == pair[2]
        total == check_valid(toks, cb, pair, total0)
        n1 == n - total
        cost == compute_cost(cb, lb, n, w1, w2, total)
    IN  IF total < mc
        THEN [outcome |-> "lowcount", codebook |-> cb, data_len |-> n, t |-> total]
        ELSE IF cost.err
        THEN [outcome |-> "raised", codebook |-> cb, data_len |-> n1, t |-> total]
        ELSE IF CostRejects(cost)
        THEN [outcome |-> "costfail", codebook |-> cb, data_len |-> n1, t |-> total]
        ELSE [outcome |-> "success", codebook |-> Merge(cb, w1, w2, total),
              data_len |-> n1, t |-> total]

\* commit_and_success that gives data_len back when the cost check fails
commit_restore(toks, cb, lb, n, mc, pair, total0) ==
    LET w1 == pair[1]
        w2 == pair[2]
        total == check_valid(toks, cb, pair, total0)
        n1 == n - total
        cost == compute_cost(cb, lb, n1, w1, w2, total)
    IN  IF total < mc
        THEN [outcome |-> "lowcount", codebook |-> cb, data_len |-> n, t |-> total]
        ELSE IF cost.err
        THEN [outcome |-> "raised", codebook |-> cb, data_len |-> n1, t |-> total]
        ELSE IF CostRejects(cost)
        THEN [outcome |-> "costfail", codebook |-> cb, data_len |-> n, t |-> total]
        ELSE [outcome |-> "success", codebook |-> Merge(cb, w1, w2, total),
              data_len |-> n1, t |-> total]

\* commit_and_success with line 105 adding the total to data_len
commit_sign_slip(toks, cb, lb, n, mc, pair, total0) ==
    LET w1 == pair[1]
        w2 == pair[2]
        total == check_valid(toks, cb, pair, total0)
        n1 == n + total
        cost == compute_cost(cb, lb, n1, w1, w2, total)
    IN  IF total < mc
        THEN [outcome |-> "lowcount", codebook |-> cb, data_len |-> n, t |-> total]
        ELSE IF cost.err
        THEN [outcome |-> "raised", codebook |-> cb, data_len |-> n1, t |-> total]
        ELSE IF CostRejects(cost)
        THEN [outcome |-> "costfail", codebook |-> cb, data_len |-> n1, t |-> total]
        ELSE [outcome |-> "success", codebook |-> Merge(cb, w1, w2, total),
              data_len |-> n1, t |-> total]

\* outcome: "lowcount" and "costfail" return False, "success" returns True,
\* "raised" leaves by the exception of compute_cost
commit_and_success(toks, cb, lb, n, mc, pair, total0) ==
    LET w1 == pair[1]
        w2 == pair[2]
        total == check_valid(toks, cb, pair, total0)
        n1 == n - total
        cost == compute_cost(cb, lb, n1, w1, w2, total)
    IN  IF total < mc
        THEN [outcome |-> "lowcount", codebook |-> cb, data_len |-> n, t |-> total]
        ELSE IF cost.err
        THEN [outcome |-> "raised", codebook |-> cb, data_len |-> n1, t |-> total]
        ELSE IF CostRejects(cost)
        THEN [outcome |-> "costfail", codebook |-> cb, data_len |-> n1, t |-> total]
        ELSE [outcome |-> "success", codebook |-> Merge(cb, w1, w2, total),
              data_len |-> n1, t |-> total]

---------------------------------------------------------------------------
(* Training loop *)

NoPair == <<EOS, EOS>>

NoAttempt ==
    [outcome |-> "none", pair |-> NoPair, total |-> 0, t |-> 0,
     cb |-> <<>>, dl |-> 0]

NoArgs == [c1w2 |-> 0, c1 |-> 0, c2 |-> 0, n |-> 0]

NoCost == [err |-> FALSE, val |-> Zero]

CharsOf(chars) == {chars[i] : i \in DOMAIN chars}

Str(n, c) == [i \in 1..n |-> c]

\* longer corpora: the example of the design document and its mirror image,
\* corpora in which the recomputed cost fails a candidate, and corpora in
\* which a merge keeps one or both of its tokens, merges a token with itself,
\* or follows a merge that has made its total stale
LongCorpora ==
    { <<"a", "b", "a", "b", "a", "b">>,
      <<"a", "b", "a", "b", "c">>,
      <<"a", "a", "b", "c", "b", "c", "b">>,
      <<"b", "a", "b", "a", "b", "a">>,
      Str(5, "a") \o <<"b", "b", "c">>,
      Str(2, "a") \o <<"b">> \o Str(2, "a") \o Str(47, "b") \o <<"a">>,
      <<"c", "a", "a", "d", "b", "a", "b", "a", "d", "b", "d", "b", "a", "a",
        "c", "a", "a", "c", "a", "d", "b", "d", "a">>,
      Str(8, "a") \o <<"c", "b", "b", "a", "c", "b", "c", "b", "c">> \o Str(3, "a"),
      <<"a", "c", "d", "a", "b", "a", "c", "b", "b", "d", "a", "c", "b">> }

Corpora == UNION {[1..n -> Chars] : n \in 1..MaxLen} \cup LongCorpora

StopSets == {{}, {<<"a">>}, {<<"a", "b">>}}

Init ==
    /\ pc = "start"
    /\ \E chars \in Corpora :
          /\ tokens = [i \in DOMAIN chars |-> <<chars[i]>>]
          /\ alphabet \in {CharsOf(chars), CharsOf(chars) \cup Chars}
    /\ stopwords \in StopSets
    /\ min_count \in 1..MaxMinCount
    /\ vocab_size \in 1..MaxVocab
    /\ iterations \in 0..MaxIter
    /\ log_base = Zero
    /\ data_len = 0
    /\ codebook = <<>>
    /\ hasCodebook = FALSE
    /\ epoch = 0
    /\ candidates = <<>>
    /\ idx = 0
    /\ last = NoAttempt
    /\ capped = FALSE
    /\ applied = 0
    /\ cargs = NoArgs
    /\ cres = NoCost

\* train, lines 136-137
BuildVocab ==
    /\ pc = "start"
    /\ log_base' = Neg(math_log(Cardinality(alphabet), 1))
    /\ pc' = "loop"
    /\ UNCHANGED <<tokens, alphabet, stopwords, min_count, vocab_size,
                   iterations, data_len, codebook, hasCodebook, epoch,
                   candidates, idx, last, capped, applied, cargs, cres>>

\* EpochBegin that seeds the Codebook in the first epoch only and carries
\* it over to the later ones
EpochBegin_carry ==
    /\ pc = "loop"
    /\ epoch < iterations
    /\ LET cb == IF hasCodebook THEN codebook ELSE CodeBook(tokens, stopwords)
           n == Len(tokens)
           cc == collect_candidates(tokens, min_count, vocab_size, cb, log_base, n)
       IN  /\ codebook' = cb
           /\ hasCodebook' = TRUE
           /\ data_len' = n
           /\ epoch' = epoch + 1
           /\ IF cc.err
              THEN pc' = "raised" /\ candidates' = <<>> /\ idx' = 0
              ELSE pc' = "commit" /\ candidates' = cc.list /\ idx' = 1
    /\ last' = NoAttempt
    /\ UNCHANGED <<tokens, alphabet, stopwords, min_count, vocab_size,
                   iterations, log_base, capped, applied, cargs, cres>>

\* train, lines 138-148: one more epoch is started
EpochBegin ==
    /\ pc = "loop"
    /\ epoch < iterations
    /\ LET cb == CodeBook(tokens, stopwords)
           n == Len(tokens)
           cc == collect_candidates(tokens, min_count, vocab_size, cb, log_base, n)
       IN  /\ codebook' = cb
           /\ hasCodebook' = TRUE
           /\ data_len' = n
           /\ epoch' = epoch + 1
           /\ IF cc.err
              THEN pc' = "raised" /\ candidates' = <<>> /\ idx' = 0
              ELSE pc' = "commit" /\ candidates' = cc.list /\ idx' = 1
    /\ last' = NoAttempt
    /\ UNCHANGED <<tokens, alphabet, stopwords, min_count, vocab_size,
                   iterations, log_base, capped, applied, cargs, cres>>

\* the cap test with >= for >
OverCap_ge(cb, vs) == Size(cb) >= vs

\* the cap test of line 123
OverCap(cb, vs) == Size(cb) > vs

\* update_codebook, lines 123-127, and the break of train
CapFire ==
    /\ pc = "commit"
    /\ idx <= Len(candidates)
    /\ OverCap(codebook, vocab_size)
    /\ capped' = TRUE
    /\ pc' = "returned"
    /\ UNCHANGED <<tokens, alphabet, stopwords, min_count, vocab_size,
                   iterations, log_base, data_len, codebook, hasCodebook,
                   epoch, candidates, idx, last, applied, cargs, cres>>

\* CommitAttempt with the corpus total of the dataset read in place of
\* self.data_len
CommitAttempt_corpus_total ==
    /\ pc = "commit"
    /\ idx <= Len(candidates)
    /\ ~OverCap(codebook, vocab_size)
    /\ LET c == candidates[idx]
           r == commit_and_success(tokens, codebook, log_base, Len(tokens),
                                   min_count, c.pair, c.total)
       IN  /\ codebook' = r.codebook
           /\ data_len' = r.data_len
           /\ last' = [outcome |-> r.outcome, pair |-> c.pair, total |-> c.total,
                       t |-> r.t, cb |-> codebook, dl |-> data_len]
           /\ pc' = IF r.outcome = "raised" THEN "raised" ELSE "commit"
    /\ idx' = idx + 1
    /\ UNCHANGED <<tokens, alphabet, stopwords, min_count, vocab_size,
                   iterations, log_base, hasCodebook, epoch, candidates,
                   capped, applied, cargs, cres>>

\* update_codebook, lines 128-130: one call of commit_and_success
CommitAttempt ==
    /\ pc = "commit"
    /\ idx <= Len(candidates)
    /\ ~OverCap(codebook, vocab_size)
    /\ LET c == candidates[idx]
           r == commit_and_success(tokens, codebook, log_base, data_len,
                                   min_count, c.pair, c.total)
       IN  /\ codebook' = r.codebook
           /\ data_len' = r.data_len
           /\ last' = [outcome |-> r.outcome, pair |-> c.pair, total |-> c.total,
                       t |-> r.t, cb |-> codebook, dl |-> data_len]
           /\ pc' = IF r.outcome = "raised" THEN "raised" ELSE "commit"
    /\ idx' = idx + 1
    /\ UNCHANGED <<tokens, alphabet, stopwords, min_count, vocab_size,
                   iterations, log_base, hasCodebook, epoch, candidates,
                   capped, applied, cargs, cres>>

\* update_codebook returns True (line 133); train, line 153
EpochEnd ==
    /\ pc = "commit"
    /\ idx > Len(candidates)
    /\ tokens' = apply_codebook(tokens, codebook)
    /\ applied' = applied + 1
    /\ pc' = "loop"
    /\ UNCHANGED <<alphabet, stopwords, min_count, vocab_size, iterations,
                   log_base, data_len, codebook, hasCodebook, epoch,
                   candidates, idx, last, capped, cargs, cres>>

\* train, line 154, after the last epoch
TrainReturn ==
    /\ pc = "loop"
    /\ epoch >= iterations
    /\ pc' = IF hasCodebook THEN "returned" ELSE "raised"
    /\ UNCHANGED <<tokens, alphabet, stopwords, min_count, vocab_size,
                   iterations, log_base, data_len, codebook, hasCodebook,
                   epoch, candidates, idx, last, capped, applied, cargs, cres>>

Next ==
    \/ BuildVocab
    \/ EpochBegin
    \/ CapFire
    \/ CommitAttempt
    \/ EpochEnd
    \/ TrainReturn

Spec == Init /\ [][Next]_vars

---------------------------------------------------------------------------
(* Runs on corpora of eight symbols, in which the pair (a, b) is found up  *)
(* to MaxPairs times and the symbol a up to MaxSingles times more          *)

RECURSIVE Rep(_, _)
Rep(s, k) == IF k = 0 THEN <<>> ELSE s \o Rep(s, k - 1)

Fill == <<"c", "d", "e", "f", "g", "h", "c", "d", "e">>

\* the first k symbols of Fill, each behind one pair a, b
RECURSIVE Paired(_)
Paired(k) == IF k = 0 THEN <<>> ELSE Paired(k - 1) \o <<"a", "b", Fill[k]>>

EightCorpora ==
    { Paired(k1) \o SubSeq(Fill, k1 + 1, Len(Fill)) \o Rep(<<"a">>, k2) :
        k1 \in 1..MaxPairs, k2 \in 0..MaxSingles }

InitEight ==
    /\ pc = "start"
    /\ \E chars \in EightCorpora :
          /\ tokens = [i \in DOMAIN chars |-> <<chars[i]>>]
          /\ alphabet = CharsOf(chars)
    /\ stopwords = {}
    /\ min_count \in 1..MaxMinCount
    /\ vocab_size \in (MaxWideVocab - 5)..(MaxWideVocab - 3)
    /\ iterations \in 0..MaxIter
    /\ log_base = Zero
    /\ data_len = 0
    /\ codebook = <<>>
    /\ hasCodebook = FALSE
    /\ epoch = 0
    /\ candidates = <<>>
    /\ idx = 0
    /\ last = NoAttempt
    /\ capped = FALSE
    /\ applied = 0
    /\ cargs = NoArgs
    /\ cres = NoCost

SpecEight == InitEight /\ [][Next]_vars

---------------------------------------------------------------------------
(* Direct calls of compute_data_cost *)

InitCost ==
    /\ pc = "cost"
    /\ cargs \in [c1w2 : 0..MaxCount, c1 : 0..MaxCount, c2 : 0..MaxCount,
                   n : 0..(2 * MaxCount)]
    /\ cres = NoCost
    /\ tokens = <<>>
    /\ alphabet = {}
    /\ stopwords = {}
    /\ min_count = 1
    /\ vocab_size = 1
    /\ iterations = 0
    /\ log_base = Zero
    /\ data_len = 0
    /\ codebook = <<>>
    /\ hasCodebook = FALSE
    /\ epoch = 0
    /\ candidates = <<>>
    /\ idx = 0
    /\ last = NoAttempt
    /\ capped = FALSE
    /\ applied = 0

EvalDataCost ==
    /\ pc = "cost"
    /\ cres' = compute_data_cost(cargs.c1w2, cargs.c1, cargs.c2, cargs.n)
    /\ pc' = "cost_done"
    /\ UNCHANGED <<tokens, alphabet, stopwords, min_count, vocab_size,
                   iterations, log_base, data_len, codebook, hasCodebook,
                   epoch, candidates, idx, last, capped, applied, cargs>>

NextCost == EvalDataCost

SpecCost == InitCost /\ [][NextCost]_vars

---------------------------------------------------------------------------
(* Calls of collect_candidates on corpora with many beneficial pairs: the   *)
(* run is taken up after build_vocab, and its one epoch is begun            *)

Lexicon ==
    << <<"a", "b">>, <<"c", "d">>, <<"e", "f">>, <<"g", "h">>, <<"i", "j">> >>

RECURSIVE Blocks(_, _)
Blocks(reps, i) ==
    IF i > Len(Lexicon) THEN <<>>
    ELSE Rep(Lexicon[i], reps[i]) \o Blocks(reps, i + 1)

CollectCorpora ==
    {Blocks(reps, 1) : reps \in [DOMAIN Lexicon -> 1..MaxReps]}
        \cup {Blocks(<<5, 4, 3, 2, 2>>, 1), Blocks(<<4, 4, 4, 4, 4>>, 1)}

InitCollect ==
    /\ pc = "loop"
    /\ \E chars \in CollectCorpora :
          /\ tokens = [i \in DOMAIN chars |-> <<chars[i]>>]
          /\ alphabet = CharsOf(chars)
    /\ stopwords = {}
    /\ min_count \in 1..MaxMinCount
    /\ vocab_size \in {1} \cup (MaxWideVocab - 3)..MaxWideVocab
    /\ iterations = 1
    /\ log_base = Neg(math_log(Cardinality(alphabet), 1))
    /\ data_len = 0
    /\ codebook = <<>>
    /\ hasCodebook = FALSE
    /\ epoch = 0
    /\ candidates = <<>>
    /\ idx = 0
    /\ last = NoAttempt
    /\ capped = FALSE
    /\ applied = 0
    /\ cargs = NoArgs
    /\ cres = NoCost

NextCollect == EpochBegin

SpecCollect == InitCollect /\ [][NextCollect]_vars

---------------------------------------------------------------------------
(* Properties *)

\* a commit attempt of the running epoch is recorded in last
Attempted == last.outcome # "none" /\ pc \in {"commit", "raised"}

A == <<"a">>
B == <<"b">>
AB == <<"a", "b">>

\* C3: every key of the Codebook has count >= 1, in every state of the run
\* and so after every commit attempt, successful or failed.
C3_CountsPositive == \A w \in DOMAIN codebook : codebook[w] >= 1

\* a successful commit has taken the whole count of w1 or of w2
C3_Witness ==
    /\ Attempted
    /\ last.outcome = "success"
    /\ \/ Get(last.cb, last.pair[1]) <= last.t
       \/ Get(last.cb, last.pair[2]) <= last.t

\* the corpus and the parameters of the example
IsExample ==
    /\ Flatten(tokens) = <<"a", "b", "a", "b", "a", "b">>
    /\ alphabet = Chars
    /\ stopwords = {}
    /\ vocab_size >= 2
    /\ epoch = 1

\* C4: the end-to-end example: corpus ababab over the alphabet {a,b,c};
\* the pair (a,b) is the first candidate, its commit succeeds, and the
\* Codebook then maps ab to 3 and holds neither a nor b.
C4_Example ==
    /\ (IsExample /\ pc = "commit" /\ idx = 1) =>
           (Len(candidates) >= 1 /\ candidates[1].pair = <<A, B>>
            /\ candidates[1].total = 3)
    /\ (IsExample /\ Attempted /\ last.pair = <<A, B>>) =>
           /\ last.outcome = "success"
           /\ Get(codebook, AB) = 3
           /\ A \notin DOMAIN codebook
           /\ B \notin DOMAIN codebook

\* the counts are consistent
C5_Pre ==
    /\ cargs.c1 >= cargs.c1w2
    /\ cargs.c1w2 >= 0
    /\ cargs.c2 >= cargs.c1w2
    /\ cargs.n >= cargs.c1 + cargs.c2 - cargs.c1w2
    /\ cargs.c1 + cargs.c2 - cargs.c1w2 >= 1

\* C5: compute_data_cost(c1w2, c1, c2, n) takes no logarithm of a value
\* <= 0 when c1 >= c1w2 >= 0, c2 >= c1w2 and n >= c1 + c2 - c1w2 >= 1.
C5_NoLogOfNonPositive == (pc = "cost_done" /\ C5_Pre) => ~cres.err

\* C6: a call of commit_and_success ends by returning success or failure,
\* never by an error.
C6_CommitNeverRaises == last.outcome # "raised"

\* C9: train(iterations = 0) returns the freshly seeded Codebook.
C9_ZeroIterations ==
    (iterations = 0 /\ pc \in {"returned", "raised"}) =>
        (pc = "returned" /\ codebook = CodeBook(tokens, stopwords))

\* the contexts of the pair that overlap with a Codebook key
Overlaps(toks, cb, pair) ==
    {i \in 1..(Len(toks) - 1) :
        /\ PairAt(toks, i) = pair
        /\ \/ (Context(toks, i)[1] \o pair[1]) \in DOMAIN cb
           \/ (pair[2] \o Context(toks, i)[4]) \in DOMAIN cb}

BothOverlap(toks, cb, pair) ==
    {i \in 1..(Len(toks) - 1) :
        /\ PairAt(toks, i) = pair
        /\ (Context(toks, i)[1] \o pair[1]) \in DOMAIN cb
        /\ (pair[2] \o Context(toks, i)[4]) \in DOMAIN cb}

\* C10: check_valid returns the input total minus the number of contexts
\* of the pair in which prev+w1 or w2+next is a Codebook key, which is never
\* more than the input total; the Codebook and data_len are as before when
\* nothing but check_valid has run.
C10_CheckValid ==
    Attempted =>
        /\ last.t = last.total - Cardinality(Overlaps(tokens, last.cb, last.pair))
        /\ last.t <= last.total
        /\ (last.outcome = "lowcount" =>
               codebook = last.cb /\ data_len = last.dl)

\* check_valid has met a context in which both overlaps hold
C10_Witness ==
    /\ Attempted
    /\ BothOverlap(tokens, last.cb, last.pair) # {}
    /\ last.t < last.total

\* the cost that the last call of commit_and_success has recomputed
Recomputed ==
    compute_cost(last.cb, log_base, last.dl - last.t, last.pair[1],
                 last.pair[2], last.t)

\* C1: a call of commit_and_success whose recomputed total cost is >= 0
\* returns failure and leaves the Codebook as it was; in particular a cost
\* of exactly 0 is not committed.
C1_NoCommitAtNonNegativeCost ==
    (/\ Attempted
     /\ last.t >= min_count
     /\ ~Recomputed.err
     /\ Sign(CostSum(Recomputed)) >= 0)
        => (last.outcome = "costfail" /\ codebook = last.cb)

\* the count of w is lower by k, or w is gone
LoweredBy(w, k) ==
    w \notin DOMAIN codebook \/ codebook[w] = Get(last.cb, w) - k

OthersKept(ws) ==
    \A w \in (DOMAIN codebook \cup DOMAIN last.cb) \ ws :
        /\ w \in DOMAIN codebook
        /\ w \in DOMAIN last.cb
        /\ codebook[w] = last.cb[w]

\* C2: after a successful commit with adjusted total t the count of w1+w2
\* is higher by t, the counts of w1 and of w2 are each lower by t unless the
\* token is gone, every other count is as before, and none of the three
\* tokens is a key with a count < 1.
C2_SuccessEffect ==
    (Attempted /\ last.outcome = "success") =>
        LET w1 == last.pair[1]
            w2 == last.pair[2]
            word == w1 \o w2
        IN  /\ Get(codebook, word) = Get(last.cb, word) + last.t
            /\ LoweredBy(w1, last.t)
            /\ LoweredBy(w2, last.t)
            /\ OthersKept({w1, w2, word})
            /\ \A w \in {w1, w2, word} \cap DOMAIN codebook : codebook[w] >= 1

\* C2 as amended: as C2 for w1 # w2; when w1 = w2 the one count is lower by
\* 2t; a token of the pair is a key afterwards exactly if the count so
\* lowered is >= 1.
C2_SuccessEffectAmended ==
    (Attempted /\ last.outcome = "success") =>
        LET w1 == last.pair[1]
            w2 == last.pair[2]
            word == w1 \o w2
            k == IF w1 = w2 THEN 2 * last.t ELSE last.t
        IN  /\ Get(codebook, word) = Get(last.cb, word) + last.t
            /\ word \in DOMAIN codebook
            /\ \A w \in {w1, w2} :
                  IF Get(last.cb, w) - k >= 1
                  THEN w \in DOMAIN codebook /\ codebook[w] = last.cb[w] - k
                  ELSE w \notin DOMAIN codebook
            /\ OthersKept({w1, w2, word})

\* a successful commit of a token with itself that keeps the token
C2_Witness ==
    /\ Attempted
    /\ last.outcome = "success"
    /\ last.pair[1] = last.pair[2]
    /\ last.pair[1] \in DOMAIN codebook
    /\ codebook[last.pair[1]] = last.cb[last.pair[1]] - 2 * last.t

\* the epoch's seeded Codebook is within the cap
SeededWithinCap == Size(CodeBook(tokens, stopwords)) <= vocab_size

\* C7: in an epoch seeded with at most vocab_size keys the Codebook never
\* has more than vocab_size + 1 keys, and when it has more than vocab_size
\* keys at the end of the commitment phase the epoch ends CAPPED.
C7_CapBound ==
    (pc = "commit" /\ SeededWithinCap) =>
        /\ Size(codebook) <= vocab_size + 1
        /\ ~(idx > Len(candidates) /\ Size(codebook) > vocab_size)

\* C7 as amended: the bound holds, no commit is attempted on a Codebook of
\* more than vocab_size keys, and the epoch ends CAPPED only with more than
\* vocab_size keys, when a candidate is left to attempt; when the commitment
\* phase has ended with more than vocab_size keys and without the cap, the
\* successful commit of the last candidate has added the key.
C7_CapBoundAmended ==
    /\ (pc = "commit" /\ SeededWithinCap) => Size(codebook) <= vocab_size + 1
    /\ Attempted => Size(last.cb) <= vocab_size
    /\ capped => (Size(codebook) > vocab_size /\ idx <= Len(candidates))
    /\ (/\ pc = "commit"
        /\ idx > Len(candidates)
        /\ SeededWithinCap
        /\ Size(codebook) > vocab_size)
           => (last.outcome = "success" /\ Size(last.cb) = vocab_size)

\* the Codebook has overshot the cap of an epoch seeded within it, and the
\* cap has fired
C7_Witness ==
    /\ capped
    /\ SeededWithinCap
    /\ Size(codebook) = vocab_size + 1
    /\ last.outcome = "success"

\* C8: once the cap has fired nothing changes the Codebook or data_len any
\* more: train has returned, and apply_codebook was not called for that
\* epoch; every epoch that has not fired the cap has called apply_codebook
\* once, after its last commit attempt.
C8_CapEndsRun ==
    /\ capped => (pc = "returned" /\ applied = epoch - 1)
    /\ (~capped /\ pc \in {"loop", "returned", "raised"}) => applied = epoch
    /\ (pc = "commit") => applied = epoch - 1

\* C11: every stopword seeded into the epoch's Codebook stays a key, with
\* its seeded count, through every commit attempt of the epoch.
C11_StopwordsProtected ==
    (pc = "commit") =>
        \A s \in stopwords :
            /\ s \in DOMAIN codebook
            /\ codebook[s] = CodeBook(tokens, stopwords)[s]

\* C12: with iterations >= 1 train runs at most iterations epochs and ends
\* by returning, never otherwise: after exactly iterations epochs that each
\* completed without the cap, or in the first epoch in which the cap fires.
C12_TrainReturns ==
    (iterations >= 1) =>
        /\ epoch <= iterations
        /\ pc # "raised"
        /\ (pc = "returned") =>
              \/ capped /\ applied = epoch - 1
              \/ ~capped /\ epoch = iterations /\ applied = iterations

\* the total costs, on the Codebook and data_len of the state, of the most
\* frequent pairs that collect_candidates looks at
CostsOf(common) ==
    [i \in DOMAIN common |->
        CostSum(compute_cost(codebook, log_base, data_len, common[i].pair[1],
                             common[i].pair[2], common[i].total))]

\* those that pass the count filter and the cost filter
PassingOf(common, cost) ==
    {i \in DOMAIN common : common[i].total >= min_count /\ Sign(cost[i]) < 0}

\* collect_candidates has just returned
Collected == pc = "commit" /\ idx = 1

\* C13: the list returned by collect_candidates holds only pairs among the
\* vocab_size/2 most frequent, of count >= min_count and total cost < 0; it
\* is in non-decreasing order of cost, equal costs in frequency-rank order;
\* its length is ceil(0.8 * k) for the k passing pairs, the costliest being
\* dropped; the Codebook and data_len are as seeded.
C13_CollectCandidates ==
    Collected =>
        LET common == most_common(tokens, vocab_size \div 2)
            cost == CostsOf(common)
            passing == PassingOf(common, cost)
            rank == [i \in DOMAIN candidates |->
                        CHOOSE j \in DOMAIN common :
                            common[j].pair = candidates[i].pair]
            sum == [i \in DOMAIN candidates |-> CostSum(candidates[i].cost)]
        IN  /\ \A i \in DOMAIN candidates :
                  /\ \E j \in passing :
                        /\ common[j].pair = candidates[i].pair
                        /\ common[j].total = candidates[i].total
                  /\ candidates[i].total >= min_count
                  /\ Sign(sum[i]) < 0
                  /\ sum[i] = cost[rank[i]]
            /\ \A i, j \in DOMAIN candidates :
                  i < j => \/ Below(sum[i], sum[j])
                           \/ sum[i] = sum[j] /\ rank[i] < rank[j]
            /\ 5 * Len(candidates) >= 4 * Cardinality(passing)
            /\ 5 * (Len(candidates) - 1) < 4 * Cardinality(passing)
            /\ \A j \in passing :
                  (\A i \in DOMAIN candidates : rank[i] # j)
                      => \A i \in DOMAIN candidates : ~Below(cost[j], sum[i])
            /\ codebook = CodeBook(tokens, stopwords)
            /\ data_len = Len(tokens)

\* a list of equal-cost candidates from which a passing pair was dropped
C13_Witness ==
    /\ Collected
    /\ Len(candidates) >= 4
    /\ CostSum(candidates[1].cost) = CostSum(candidates[2].cost)
    /\ LET common == most_common(tokens, vocab_size \div 2)
       IN  Cardinality(PassingOf(common, CostsOf(common))) > Len(candidates)

\* C14: a call of commit_and_success with adjusted total t < min_count
\* fails and leaves data_len and the Codebook as they were; with
\* t >= min_count data_len is lower by exactly t after a success and after
\* a failed cost check alike, and the cost check has read the lowered
\* data_len.
C14_DataLenEffect ==
    Attempted =>
        /\ (last.t < min_count) =>
              /\ last.outcome = "lowcount"
              /\ data_len = last.dl
              /\ codebook = last.cb
        /\ (last.t >= min_count /\ last.outcome # "raised") =>
              /\ last.outcome \in {"success", "costfail"}
              /\ data_len = last.dl - last.t
              /\ (last.outcome = "costfail") <=> (Sign(CostSum(Recomputed)) > 0)
              /\ (last.outcome = "costfail") => codebook = last.cb

\* a cost check has failed that the data_len before the call would have
\* let pass
C14_Witness ==
    /\ Attempted
    /\ last.outcome = "costfail"
    /\ last.t >= 1
    /\ LET early == compute_cost(last.cb, log_base, last.dl, last.pair[1],
                                 last.pair[2], last.t)
       IN  ~early.err /\ Sign(CostSum(early)) <= 0

\* what the attempt of candidate c does on the Codebook and data_len of the
\* state, told by the record of the attempt and the next Codebook and
\* data_len
AttemptReads(c) ==
    LET t == c.total - Cardinality(Overlaps(tokens, codebook, c.pair))
        cost == compute_cost(codebook, log_base, data_len - t, c.pair[1],
                             c.pair[2], t)
    IN  /\ last'.pair = c.pair
        /\ last'.total = c.total
        /\ last'.t = t
        /\ (t < min_count) =>
              /\ last'.outcome = "lowcount"
              /\ codebook' = codebook
              /\ data_len' = data_len
        /\ (t >= min_count) =>
              /\ data_len' = data_len - t
              /\ cost.err => last'.outcome = "raised"
              /\ (~cost.err /\ Sign(CostSum(cost)) > 0) =>
                    (last'.outcome = "costfail" /\ codebook' = codebook)
              /\ (~cost.err /\ Sign(CostSum(cost)) <= 0) =>
                    /\ last'.outcome = "success"
                    /\ codebook'[c.pair[1] \o c.pair[2]] =
                           Get(codebook, c.pair[1] \o c.pair[2]) + t

\* C15: within an epoch the candidates are attempted in the ranked order,
\* one at a time and each at most once; the validity check and the cost
\* recomputation of an attempt read the Codebook and data_len as the
\* attempts before it have left them, and the total recorded at selection.
C15_RankedOrder ==
    [][(pc = "commit" /\ idx' # idx) =>
          /\ idx <= Len(candidates)
          /\ idx' = idx + 1
          /\ candidates' = candidates
          /\ tokens' = tokens
          /\ AttemptReads(candidates[idx])]_vars

\* a later attempt of an epoch whose adjusted total is not the one that
\* the seeded Codebook gives
C15_Witness ==
    /\ Attempted
    /\ idx >= 3
    /\ last.pair = candidates[idx - 1].pair
    /\ last.cb # CodeBook(tokens, stopwords)
    /\ last.dl < Len(tokens)
    /\ last.t # last.total - Cardinality(Overlaps(tokens,
                                 CodeBook(tokens, stopwords), last.pair))

\* C16: log_base is assigned once, before the first epoch, as
\* -ln(|alphabet|), and no later step changes it; every epoch starts with
\* a freshly seeded Codebook and with data_len set to the number of tokens
\* of the corpus as it then is.
C16_EpochScoping ==
    [][/\ (pc = "start") => log_base' = Neg(math_log(Cardinality(alphabet), 1))
       /\ (pc # "start") =>
             (log_base' = log_base /\ log_base = Neg(math_log(Cardinality(alphabet), 1)))
       /\ (epoch' # epoch) =>
             /\ epoch' = epoch + 1
             /\ tokens' = tokens
             /\ codebook' = CodeBook(tokens, stopwords)
             /\ data_len' = Len(tokens)]_vars

\* a second epoch has started on a corpus that a merge of the first epoch
\* has re-encoded
C16_Witness ==
    /\ epoch = 2
    /\ stopwords = {}
    /\ pc = "commit"
    /\ idx = 1
    /\ \E w \in DOMAIN codebook : Len(w) >= 2
    /\ data_len = Len(tokens)
    /\ Len(tokens) < Len(Flatten(tokens))
    /\ log_base = Neg(math_log(Cardinality(alphabet), 1))

\* the sum of all counts of a Codebook
RECURSIVE SumOver(_, _)
SumOver(cb, S) ==
    IF S = {} THEN 0
    ELSE LET w == CHOOSE x \in S : TRUE
         IN  cb[w] + SumOver(cb, S \ {w})

SumCounts(cb) == SumOver(cb, DOMAIN cb)

\* the last attempt has succeeded on two different tokens with an adjusted
\* total within the counts that both had
WithinCounts ==
    /\ last.outcome = "success"
    /\ last.pair[1] # last.pair[2]
    /\ last.t <= Get(last.cb, last.pair[1])
    /\ last.t <= Get(last.cb, last.pair[2])

\* C17: an epoch whose stopwords all occur in the corpus starts with
\* data_len equal to the sum of the counts of the Codebook; a commit
\* attempt that fails the min_count check, or succeeds on w1 # w2 with an
\* adjusted total within the counts of w1 and w2, keeps data_len minus that
\* sum as it was, and one that fails the cost check lowers it by exactly
\* its adjusted total.
C17_Conservation ==
    [][/\ (epoch' # epoch /\ stopwords \subseteq TokenSet(tokens)) =>
             data_len' = SumCounts(codebook')
       /\ (pc = "commit" /\ idx' # idx) =>
             LET before == data_len - SumCounts(codebook)
                 after == data_len' - SumCounts(codebook')
             IN  /\ (last'.outcome = "lowcount") => after = before
                 /\ WithinCounts' => after = before
                 /\ (last'.outcome = "costfail") =>
                       (after = before - last'.t /\ last'.t >= min_count)]_vars

\* data_len is the sum of the counts after a merge that has kept one of
\* its two tokens
C17_Witness ==
    /\ Attempted
    /\ WithinCounts
    /\ last.t < Get(last.cb, last.pair[1]) \/ last.t < Get(last.cb, last.pair[2])
    /\ last.dl = SumCounts(last.cb)
    /\ data_len = SumCounts(codebook)
    /\ data_len = last.dl - last.t

\* C18: after every commit attempt of an epoch data_len is no higher than
\* before the attempt and is >= 1.
C18_DataLenPositive ==
    Attempted => (data_len <= last.dl /\ data_len >= 1)

\* a commit attempt has lowered data_len to 1
C18_Witness ==
    /\ Attempted
    /\ last.t >= min_count
    /\ data_len < last.dl
    /\ data_len = 1

====
